---- MODULE Spec2Model ----
(***************************************************************************)
(* Session Manager of the meeting client (SpaceProvider, the React context *)
(* that wraps the @mux/spaces-web SDK): the joinSpace / leaveSpace         *)
(* lifecycle and the handlers that reconcile SDK events into the roster,   *)
(* the screen-share slot and the broadcast flag.                           *)
(*                                                                         *)
(* React state is modelled by one variable per useState cell.  A handler   *)
(* runs to completion between two awaits, so each action is one such run.  *)
(* Participant and track objects are SDK objects: a participant is         *)
(* identified by its connection id, a track by its owner and its source.   *)
(* The identity of Space objects is abstracted to what the code can        *)
(* observe of them: whether the `space` cell holds one, whether that one   *)
(* still has the handlers bound, and whether an earlier one that was never *)
(* left is still delivering events.                                        *)
(*                                                                         *)
(* Device Inventory Manager (UserMediaProvider): the active microphone and *)
(* camera slots and userMediaError.  getUserMedia is the SDK's: what it    *)
(* returns or throws is an input of the action that awaits it.  UserContext *)
(* is not among the sources: the mute preference is a variable, the        *)
(* pre-selected device ids are inputs of joinSpace.                        *)
(***************************************************************************)
EXTENDS Integers, Sequences, FiniteSets, TLC

\* ---- bounds of the model -------------------------------------------------
\* number of remote connections the SDK may report
MaxConnections == 3
\* number of them that come to the meeting where the roster is followed
\* together with the session, the subscriptions or the screen share
MaxParticipants == 2
\* longest batch of an ActiveSpeakersChanged event
MaxBatch == 2
\* lib/constants is not among the sources: the page size is a parameter of
\* the model (imported at part_001:25, used at part_001:212)
MAX_PARTICIPANTS_PER_PAGE == 2
\* most tracks the local participant publishes in one session
MaxPublished == 2

\* ---- values --------------------------------------------------------------
Remote == 1..MaxConnections
\* the remote participants that come to the meeting
Present == 1..MaxParticipants
\* the LocalParticipant instance, as the participant argument of an event
LocalId == 0
\* participantScreenSharing = null
NoParticipant == -1
Participants == Remote \cup {LocalId}

Sources == {"camera", "microphone", "screenshare"}
NoTrack == [owner |-> NoParticipant, source |-> "none"]
TrackOf(p, src) == [owner |-> p, source |-> src]
\* the screen-share tracks the SDK may hand to the handlers
ShareTracks == {TrackOf(p, "screenshare") : p \in Participants}
\* the video elements a component may pass to attachScreenShare
Elements == {"video1", "video2"}

\* e.message of the three failures joinSpace can meet
CtorErrors == {"InvalidJwt"}
JoinErrors == {"JoinFailed"}
PublishErrors == {"PublishFailed"}

\* ---- local devices and tracks ---------------------------------------------
\* device ids of the platform; "" asks for the platform's default device
MicrophoneIds == {"mic1", "mic2"}
CameraIds == {"cam1"}
DefaultDevice == ""

\* a LocalTrack: its source, the device it was captured from, its mute state
LocalTrack(src, deviceId) == [source |-> src, deviceId |-> deviceId, muted |-> FALSE]
NoLocalTrack == [source |-> "none", deviceId |-> "undefined", muted |-> FALSE]

\* what getUserMedia rejects with: e.name and whether e is a DOMException.
\* OverconstrainedError is a DOMException on some platforms only.
MediaFailures ==
  { [name |-> "NotAllowedError",      dom |-> TRUE],
    [name |-> "NotFoundError",        dom |-> TRUE],
    [name |-> "OverconstrainedError", dom |-> FALSE],
    [name |-> "OverconstrainedError", dom |-> TRUE],
    [name |-> "TypeError",            dom |-> FALSE] }
NoFailure == [name |-> "none", dom |-> FALSE]

\* UserContext at the time of the call: the pre-selected devices ("" is
\* none) and the camera-off preference
PreSelection(cameraDeviceId, cameraOff, microphoneDeviceId) ==
  [cameraDeviceId |-> cameraDeviceId, cameraOff |-> cameraOff,
   microphoneDeviceId |-> microphoneDeviceId]

\* nothing pre-selected
NoPreSelection == PreSelection("", FALSE, "")

VARIABLES
  space,                    \* useState<Space | null>: "null" or "Space"
  spaceEndsAt,              \* useState<number | null>: 0 is null
  localParticipant,         \* "null" or "LocalParticipant"
  remoteParticipants,       \* the roster: sequence of connection ids
  isJoined,
  joinError,                \* "null" or a message
  isBroadcasting,
  screenShareTrack,         \* NoTrack is undefined
  screenShareError,         \* "null" or a message
  participantScreenSharing, \* NoParticipant is null
  sdk,                      \* SDK state of the Space held by `space`
  listening,                \* that Space has the handlers bound
  stale,                    \* an earlier Space, never left, still delivers events
  subscribed,               \* remote participants whose isSubscribed() is true
  jpc,                      \* position of the joinSpace call in flight
  activeMicrophone,         \* useState<LocalTrack>(): NoLocalTrack is undefined
  activeCamera,
  userMediaError,           \* "undefined" or an error name
  userWantsMicMuted,        \* UserContext: the mute preference
  published,                \* tracks of the participant in localParticipant
  pubCall,                  \* the publishMicrophone or publishCamera call in flight
  attachedElements,         \* track.attachedElements of every screen-share track
  last                      \* the handler that ran last, how it ended, and
                            \* whether the call threw to its caller

vars == <<space, spaceEndsAt, localParticipant, remoteParticipants, isJoined,
          joinError, isBroadcasting, screenShareTrack, screenShareError,
          participantScreenSharing, sdk, listening, stale, subscribed, jpc,
          activeMicrophone, activeCamera, userMediaError, userWantsMicMuted,
          published, pubCall, attachedElements, last>>

sessionVars == <<space, spaceEndsAt, localParticipant, isJoined, joinError,
                 isBroadcasting, sdk, listening, stale, jpc>>
shareVars == <<screenShareTrack, participantScreenSharing>>
mediaVars == <<activeMicrophone, activeCamera, userMediaError, userWantsMicMuted>>
publishVars == <<published, pubCall>>

\* ---- sequences as the code uses them ------------------------------------
Elems(s) == {s[i] : i \in 1..Len(s)}

\* Array.prototype.filter
RECURSIVE Filter(_, _)
Filter(s, keep) ==
  IF s = <<>> THEN <<>>
  ELSE (IF Head(s) \in keep THEN <<Head(s)>> ELSE <<>>) \o Filter(Tail(s), keep)

\* Array.prototype.findIndex on connectionId: 0-based, -1 when absent
FindIndex(s, p) ==
  IF p \in Elems(s) THEN (CHOOSE i \in 1..Len(s) : s[i] = p /\ \A j \in 1..(i-1) : s[j] # p) - 1
  ELSE -1

\* updated.splice(idx, 1) for 0 <= idx < length
Splice1(s, idx) == SubSeq(s, 1, idx) \o SubSeq(s, idx + 2, Len(s))

\* updated.unshift(p)
Unshift(s, p) == <<p>> \o s

\* ---- roster handlers: the updater each passes to setRemoteParticipants ---
\* fault variants of the updater: without the find, and adding at the front
HandleParticipantJoinedWithoutFind(old, newParticipant) == Append(old, newParticipant)

HandleParticipantJoinedAtFront(old, newParticipant) ==
  IF newParticipant \in Elems(old) THEN old ELSE Unshift(old, newParticipant)

HandleParticipantJoined(old, newParticipant) ==
  IF newParticipant \in Elems(old) THEN old ELSE Append(old, newParticipant)

\* fault variant: the entry at the front is removed instead of the one that
\* left
HandleParticipantLeftAtFront(old, leaving) ==
  IF leaving \in Elems(old) THEN Tail(old) ELSE old

HandleParticipantLeft(old, leaving) == Filter(old, Elems(old) \ {leaving})

\* fault variant: the unshift without the splice
PromoteSpeakerWithoutSplice(updated, participant) ==
  LET idx == FindIndex(updated, participant)
  IN IF participant \in Remote /\ idx >= MAX_PARTICIPANTS_PER_PAGE - 1
     THEN Unshift(updated, participant)
     ELSE updated

\* fault variant: the threshold off by one
PromoteSpeakerBeyondPage(updated, participant) ==
  LET idx == FindIndex(updated, participant)
  IN IF participant \in Remote /\ idx >= MAX_PARTICIPANTS_PER_PAGE
     THEN Unshift(Splice1(updated, idx), participant)
     ELSE updated

\* one iteration of changes.forEach
PromoteSpeaker(updated, participant) ==
  LET idx == FindIndex(updated, participant)
  IN IF participant \in Remote /\ idx >= MAX_PARTICIPANTS_PER_PAGE - 1
     THEN Unshift(Splice1(updated, idx), participant)
     ELSE updated

RECURSIVE HandleActiveSpeakerChanged(_, _)
HandleActiveSpeakerChanged(old, changes) ==
  IF changes = <<>> THEN old
  ELSE HandleActiveSpeakerChanged(PromoteSpeaker(old, Head(changes)), Tail(changes))

\* Array.prototype.reverse
RECURSIVE Reverse(_)
Reverse(s) == IF s = <<>> THEN <<>> ELSE Reverse(Tail(s)) \o <<Head(s)>>

\* old.map: the entry of the same connection id is replaced by the
\* participant of the event
MapChanged(old, participantWhoChanged) ==
  [i \in 1..Len(old) |->
     IF old[i] = participantWhoChanged THEN participantWhoChanged ELSE old[i]]

\* fault variants: a partition that is not stable, and one in the wrong order
ReorderUnstable(old, participantWhoChanged, subs) ==
  LET updated == Reverse(MapChanged(old, participantWhoChanged))
  IN Filter(updated, subs) \o Filter(updated, Remote \ subs)

ReorderUnsubscribedFirst(old, participantWhoChanged, subs) ==
  LET updated == MapChanged(old, participantWhoChanged)
  IN Filter(updated, Remote \ subs) \o Filter(updated, subs)

\* subs are the participants whose isSubscribed() is true when the updater
\* runs
ReorderRemoteParticipantsBySubscription(old, participantWhoChanged, subs) ==
  LET updated == MapChanged(old, participantWhoChanged)
  IN Filter(updated, subs) \o Filter(updated, Remote \ subs)

\* [...old] after found.displayName = updated.displayName
HandleParticipantDisplayNameChanged(old, updated) == old

\* ---- the record of the handler that ran last ---------------------------------
\* named and single are written by an active-speaker event only: the remote
\* participants of the roster that the batch names, and whether the batch
\* names one participant
\* given and asked are written by requestPermissionAndStartDevices only: the
\* modalities whose device id argument is not undefined, and the modalities
\* the call asked getUserMedia for
\* pre is written by the steps of joinSpace that end publishForLocalParticipant:
\* the preferences it read
\* returned is written by getMicrophone and getCamera: tracks[0], NoLocalTrack
\* being undefined
Handled(op, res, threw) ==
  [op |-> op, res |-> res, threw |-> threw, named |-> {}, single |-> FALSE,
   given |-> {}, asked |-> {}, pre |-> NoPreSelection, returned |-> NoLocalTrack]

\* ---- SDK events ------------------------------------------------------------
\* A Space delivers events while it is joining or connected and its handlers
\* are bound (part_001:310-318); removeAllListeners ends the delivery.
EventsDelivered == IF stale THEN TRUE ELSE listening /\ sdk \in {"joining", "connected"}

\* The local participant exists once join() has resolved: an event names it
\* only from then on.
EventsDeliveredAbout(p) ==
  /\ EventsDelivered
  /\ IF p = LocalId /\ ~stale THEN listening /\ sdk = "connected" ELSE TRUE

ParticipantJoined(p) ==
  /\ EventsDelivered
  /\ remoteParticipants' = HandleParticipantJoined(remoteParticipants, p)
  /\ last' = Handled("participantJoined",
                   IF p \in Elems(remoteParticipants) THEN "present" ELSE "added",
                   FALSE)
  /\ UNCHANGED <<sessionVars, shareVars, screenShareError, subscribed>>
  /\ UNCHANGED <<attachedElements, mediaVars, publishVars>>

ParticipantLeft(p) ==
  /\ EventsDelivered
  /\ remoteParticipants' = HandleParticipantLeft(remoteParticipants, p)
  /\ last' = Handled("participantLeft",
                   IF p \in Elems(remoteParticipants) THEN "removed" ELSE "absent",
                   FALSE)
  /\ UNCHANGED <<sessionVars, shareVars, screenShareError, subscribed>>
  /\ UNCHANGED <<attachedElements, mediaVars, publishVars>>

ActiveSpeakersChanged(changes) ==
  /\ \A k \in 1..Len(changes) : EventsDeliveredAbout(changes[k])
  /\ remoteParticipants' = HandleActiveSpeakerChanged(remoteParticipants, changes)
  /\ last' = [Handled("activeSpeakersChanged",
                      IF remoteParticipants' # remoteParticipants THEN "promoted" ELSE "kept",
                      FALSE)
                EXCEPT !.named = {p \in Remote \cap Elems(remoteParticipants) :
                                    \E k \in 1..Len(changes) : changes[k] = p},
                       !.single = (Len(changes) = 1)]
  /\ UNCHANGED <<sessionVars, shareVars, screenShareError, subscribed>>
  /\ UNCHANGED <<attachedElements, mediaVars, publishVars>>

BroadcastStateChanged(broadcastState) ==
  /\ EventsDelivered
  /\ isBroadcasting' = broadcastState
  /\ last' = Handled("broadcastStateChanged",
                   "done",
                   FALSE)
  /\ UNCHANGED <<space, spaceEndsAt, localParticipant, remoteParticipants, isJoined,
                 joinError, screenShareTrack, screenShareError,
                 participantScreenSharing, sdk, listening, stale, subscribed, jpc>>
  /\ UNCHANGED <<attachedElements, mediaVars, publishVars>>

ParticipantDisplayNameChanged(p) ==
  /\ EventsDeliveredAbout(p)
  /\ remoteParticipants' =
       IF p \in Remote THEN HandleParticipantDisplayNameChanged(remoteParticipants, p)
       ELSE remoteParticipants
  /\ last' = Handled("displayNameChanged",
                   IF p \in Remote THEN "remote" ELSE "local",
                   FALSE)
  /\ UNCHANGED <<sessionVars, shareVars, screenShareError, subscribed>>
  /\ UNCHANGED <<attachedElements, mediaVars, publishVars>>

\* ---- screen-share slot ------------------------------------------------------
\* fault variant: the track without its owner
SetupScreenShareTrackOnly(participant, track) ==
  /\ screenShareTrack' = track
  /\ participantScreenSharing' = participantScreenSharing

SetupScreenShare(participant, track) ==
  /\ screenShareTrack' = track
  /\ participantScreenSharing' = participant

\* fault variant: the track is cleared and its owner is kept
TearDownScreenShareTrackOnly ==
  /\ screenShareTrack' = NoTrack
  /\ participantScreenSharing' = participantScreenSharing

TearDownScreenShare ==
  /\ screenShareTrack' = NoTrack
  /\ participantScreenSharing' = NoParticipant

ParticipantTrackPublished(p, src, hasMedia) ==
  /\ EventsDeliveredAbout(p)
  /\ IF src = "screenshare" /\ hasMedia
     THEN SetupScreenShare(p, TrackOf(p, src))
     ELSE UNCHANGED shareVars
  /\ last' = Handled("trackPublished",
                   IF src = "screenshare" /\ hasMedia
                     THEN (IF screenShareTrack \in {NoTrack, TrackOf(p, src)}
                           THEN "screenshare" ELSE "replaced")
                     ELSE "ignored",
                   FALSE)
  /\ UNCHANGED <<sessionVars, remoteParticipants, screenShareError, subscribed>>
  /\ UNCHANGED <<attachedElements, mediaVars, publishVars>>

\* The SDK marks the participant subscribed, then emits the event.
ParticipantTrackSubscribed(p, src, hasMedia) ==
  /\ EventsDeliveredAbout(p)
  /\ subscribed' = IF p \in Remote THEN subscribed \cup {p} ELSE subscribed
  /\ remoteParticipants' =
       IF p \in Remote
       THEN ReorderRemoteParticipantsBySubscription(remoteParticipants, p, subscribed')
       ELSE remoteParticipants
  /\ IF src = "screenshare" /\ hasMedia
     THEN SetupScreenShare(p, TrackOf(p, src))
     ELSE UNCHANGED shareVars
  /\ last' = Handled("trackSubscribed",
                   IF p \notin Remote THEN "local"
                      ELSE IF remoteParticipants' # remoteParticipants THEN "reordered"
                      ELSE "kept",
                   FALSE)
  /\ UNCHANGED <<sessionVars, screenShareError>>
  /\ UNCHANGED <<attachedElements, mediaVars, publishVars>>

ParticipantTrackUnpublished(p, src) ==
  /\ EventsDeliveredAbout(p)
  /\ IF src = "screenshare" THEN TearDownScreenShare ELSE UNCHANGED shareVars
  /\ last' = Handled("trackUnpublished",
                   IF src = "screenshare" THEN "screenshare" ELSE "ignored",
                   FALSE)
  /\ UNCHANGED <<sessionVars, remoteParticipants, screenShareError, subscribed>>
  /\ UNCHANGED <<attachedElements, mediaVars, publishVars>>

\* The participant stays subscribed when another of its tracks still is.
ParticipantTrackUnsubscribed(p, src, stillSubscribed) ==
  /\ EventsDeliveredAbout(p)
  /\ subscribed' = IF p \in Remote /\ ~stillSubscribed THEN subscribed \ {p} ELSE subscribed
  /\ remoteParticipants' =
       IF p \in Remote
       THEN ReorderRemoteParticipantsBySubscription(remoteParticipants, p, subscribed')
       ELSE remoteParticipants
  /\ IF src = "screenshare" THEN TearDownScreenShare ELSE UNCHANGED shareVars
  /\ last' = Handled("trackUnsubscribed",
                   IF p \notin Remote THEN "local"
                      ELSE IF remoteParticipants' # remoteParticipants THEN "reordered"
                      ELSE "kept",
                   FALSE)
  /\ UNCHANGED <<sessionVars, screenShareError>>
  /\ UNCHANGED <<attachedElements, mediaVars, publishVars>>

\* ---- Device Inventory Manager ---------------------------------------------------
\* What an awaited getUserMedia ended with: the tracks of the modalities it
\* was asked for, or the failure it rejected with.
Acquired(tracks) == [tracks |-> tracks, e |-> NoFailure]
Failed(e) == [tracks |-> <<>>, e |-> e]
\* the call was not made
Skipped == Acquired(<<>>)

\* the devices a request for deviceId can be served from
Served(ids, deviceId) == IF deviceId = DefaultDevice THEN ids ELSE {deviceId}

MicrophoneOutcomes(deviceId) ==
  {Acquired(<<LocalTrack("microphone", d)>>) : d \in Served(MicrophoneIds, deviceId)}
    \cup {Failed(e) : e \in MediaFailures}

CameraOutcomes(deviceId) ==
  {Acquired(<<LocalTrack("camera", d)>>) : d \in Served(CameraIds, deviceId)}
    \cup {Failed(e) : e \in MediaFailures}

\* "undefined" switches the modality off (options.audio = false)
Undefined == "undefined"

BulkOutcomes(microphoneDeviceId, cameraDeviceId) ==
  LET mics == IF microphoneDeviceId = Undefined THEN {<<>>}
              ELSE {<<LocalTrack("microphone", d)>> : d \in Served(MicrophoneIds, microphoneDeviceId)}
      cams == IF cameraDeviceId = Undefined THEN {<<>>}
              ELSE {<<LocalTrack("camera", d)>> : d \in Served(CameraIds, cameraDeviceId)}
  IN {Acquired(m \o c) : m \in mics, c \in cams} \cup {Failed(e) : e \in MediaFailures}

IsNotAllowed(e) == e.name \in {"NotAllowedError", "PermissionDeniedError"} \/ e.dom
IsOverconstrained(e) == e.name \in {"OverconstrainedError", "ConstraintNotSatisfiedError"}

\* the catch of getMicrophone and of getCamera
RecordedError(e) ==
  IF IsNotAllowed(e) THEN "NotAllowedError"
  ELSE IF IsOverconstrained(e) THEN "OverconstrainedError"
  ELSE e.name

\* tracks.forEach: the last track of the source, or the slot as it was
RECURSIVE SlotAfter(_, _, _)
SlotAfter(slot, tracks, src) ==
  IF tracks = <<>> THEN slot
  ELSE SlotAfter(IF Head(tracks).source = src THEN Head(tracks) ELSE slot, Tail(tracks), src)

\* fault variant: the preference is not applied to the new track
MutedNever(tracks, mute) == tracks

\* if (userWantsMicMuted) track.mute(), on the tracks of the microphone
Muted(tracks, mute) ==
  [i \in 1..Len(tracks) |->
     IF tracks[i].source = "microphone" /\ mute
     THEN [tracks[i] EXCEPT !.muted = TRUE] ELSE tracks[i]]

\* tracks[0]
First(tracks) == IF tracks = <<>> THEN NoLocalTrack ELSE tracks[1]

\* getUserMedia is awaited once and every write follows its resolution: the
\* action is the call from that resolution on.
GetMicrophone(deviceId, out) ==
  /\ out \in MicrophoneOutcomes(deviceId)
  /\ userMediaError' = IF out.e # NoFailure THEN RecordedError(out.e) ELSE userMediaError
  /\ activeMicrophone' =
       SlotAfter(activeMicrophone, Muted(out.tracks, userWantsMicMuted), "microphone")
  /\ last' = [Handled("getMicrophone",
                      IF out.e # NoFailure THEN "failed" ELSE "acquired",
                      FALSE)
                EXCEPT !.returned = First(Muted(out.tracks, userWantsMicMuted))]
  /\ UNCHANGED <<attachedElements, sessionVars, shareVars, remoteParticipants, screenShareError,
                 subscribed, activeCamera, userWantsMicMuted, publishVars>>

GetCamera(deviceId, out) ==
  /\ out \in CameraOutcomes(deviceId)
  /\ userMediaError' = IF out.e # NoFailure THEN RecordedError(out.e) ELSE userMediaError
  /\ activeCamera' = SlotAfter(activeCamera, out.tracks, "camera")
  /\ last' = [Handled("getCamera",
                      IF out.e # NoFailure THEN "failed" ELSE "acquired",
                      FALSE)
                EXCEPT !.returned = First(out.tracks)]
  /\ UNCHANGED <<attachedElements, sessionVars, shareVars, remoteParticipants, screenShareError,
                 subscribed, activeMicrophone, userWantsMicMuted, publishVars>>

\* the modalities of a request
Modalities(microphoneDeviceId, cameraDeviceId) ==
  (IF microphoneDeviceId = Undefined THEN {} ELSE {"audio"})
    \cup (IF cameraDeviceId = Undefined THEN {} ELSE {"video"})

\* out is what getUserMedia(options) ended with; on an overconstrained
\* failure that is not taken for a denial the catch awaits
\* getUserMedia({ audio: true, video: true }) outside of any try, and
\* fallback is what that ended with.
RequestPermissionAndStartDevices(microphoneDeviceId, cameraDeviceId, out, fallback) ==
  LET failed == out.e # NoFailure
      fallsBack == failed /\ ~IsNotAllowed(out.e) /\ IsOverconstrained(out.e)
      rejects == fallsBack /\ fallback.e # NoFailure
      tracks == IF fallsBack THEN fallback.tracks ELSE out.tracks
  IN /\ out \in BulkOutcomes(microphoneDeviceId, cameraDeviceId)
     /\ fallback \in IF fallsBack THEN BulkOutcomes(DefaultDevice, DefaultDevice)
                    ELSE {Skipped}
     /\ userMediaError' =
          IF failed /\ ~fallsBack THEN RecordedError(out.e) ELSE userMediaError
     /\ activeMicrophone' =
          SlotAfter(activeMicrophone, Muted(tracks, userWantsMicMuted), "microphone")
     /\ activeCamera' = SlotAfter(activeCamera, tracks, "camera")
     /\ last' = [Handled("requestPermissionAndStartDevices",
                         IF rejects THEN "fallbackRejected"
                           ELSE IF fallsBack THEN "fallback"
                           ELSE IF failed THEN "failed"
                           ELSE "started",
                         rejects)
                   EXCEPT !.given = Modalities(microphoneDeviceId, cameraDeviceId),
                          !.asked = IF fallsBack THEN {"audio", "video"}
                                    ELSE Modalities(microphoneDeviceId, cameraDeviceId)]
     /\ UNCHANGED <<attachedElements, sessionVars, shareVars, remoteParticipants, screenShareError,
                    subscribed, userWantsMicMuted, publishVars>>

StopActiveCamera ==
  /\ activeCamera # NoLocalTrack
  /\ activeCamera' = NoLocalTrack
  /\ last' = Handled("stopActiveCamera", "stopped", FALSE)
  /\ UNCHANGED <<attachedElements, sessionVars, shareVars, remoteParticipants, screenShareError,
                 subscribed, activeMicrophone, userMediaError, userWantsMicMuted,
                 publishVars>>

\* UserContext changes the preference; the effect on [userWantsMicMuted,
\* activeMicrophone] mutes or unmutes the active track in the same commit
SetUserWantsMicMuted(mute) ==
  /\ userWantsMicMuted # mute
  /\ userWantsMicMuted' = mute
  /\ activeMicrophone' =
       IF activeMicrophone # NoLocalTrack
       THEN [activeMicrophone EXCEPT !.muted = mute] ELSE activeMicrophone
  /\ last' = Handled("setUserWantsMicMuted", "done", FALSE)
  /\ UNCHANGED <<attachedElements, sessionVars, shareVars, remoteParticipants, screenShareError,
                 subscribed, activeCamera, userMediaError, publishVars>>

\* ---- joinSpace ----------------------------------------------------------------
\* expiry timestamps a caller passes; 0 stands for an omitted endsAt
EndsAtValues == {0, 1}

\* new Space(jwt, spaceOpts) throws: the call ends in the first catch
JoinSpaceCtorThrows(msg) ==
  /\ jpc = "idle"
  /\ joinError' = msg
  /\ last' = Handled("joinSpace",
                   "ctorThrew",
                   FALSE)
  /\ UNCHANGED <<space, spaceEndsAt, localParticipant, remoteParticipants, isJoined,
                 isBroadcasting, screenShareTrack, screenShareError,
                 participantScreenSharing, sdk, listening, stale, subscribed, jpc>>
  /\ UNCHANGED <<attachedElements, mediaVars, publishVars>>

\* fault variant: _space.join() is called before the handlers are bound
JoinSpaceStartUnbound(endsAt) ==
  /\ jpc = "idle"
  /\ spaceEndsAt' = IF endsAt # 0 THEN endsAt ELSE spaceEndsAt
  /\ stale' = (stale \/ (listening /\ sdk \in {"joining", "connected"}))
  /\ space' = "Space"
  /\ listening' = FALSE
  /\ sdk' = "joining"
  /\ jpc' = "handshake"
  /\ last' = Handled("joinSpace",
                   "awaitJoin",
                   FALSE)
  /\ UNCHANGED <<localParticipant, remoteParticipants, isJoined, joinError,
                 isBroadcasting, screenShareTrack, screenShareError,
                 participantScreenSharing, subscribed>>
  /\ UNCHANGED <<attachedElements, mediaVars, publishVars>>

\* the Space is built, the nine handlers are bound, setSpace, and the call
\* suspends on _space.join().  The Space the cell held before keeps its
\* handlers: nothing removes them.
JoinSpaceStart(endsAt) ==
  /\ jpc = "idle"
  /\ spaceEndsAt' = IF endsAt # 0 THEN endsAt ELSE spaceEndsAt
  /\ stale' = (stale \/ (listening /\ sdk \in {"joining", "connected"}))
  /\ space' = "Space"
  /\ listening' = TRUE
  /\ sdk' = "joining"
  /\ jpc' = "handshake"
  /\ last' = Handled("joinSpace",
                   "awaitJoin",
                   FALSE)
  /\ UNCHANGED <<localParticipant, remoteParticipants, isJoined, joinError,
                 isBroadcasting, screenShareTrack, screenShareError,
                 participantScreenSharing, subscribed>>
  /\ UNCHANGED <<attachedElements, mediaVars, publishVars>>

\* fault variant: the catch without setIsBroadcasting(false)
JoinCatchKeepsBroadcast(msg) ==
  /\ joinError' = msg
  /\ isBroadcasting' = isBroadcasting
  /\ isJoined' = FALSE

\* the catch of the second try (part_001:328-333)
JoinCatch(msg) ==
  /\ joinError' = msg
  /\ isBroadcasting' = FALSE
  /\ isJoined' = FALSE

JoinHandshakeRejects(msg) ==
  /\ jpc = "handshake"
  /\ JoinCatch(msg)
  /\ sdk' = IF sdk = "joining" THEN "failed" ELSE sdk
  /\ jpc' = "idle"
  /\ last' = Handled("joinSpace",
                   "joinRejected",
                   FALSE)
  /\ UNCHANGED <<space, spaceEndsAt, localParticipant, remoteParticipants,
                 screenShareTrack, screenShareError, participantScreenSharing,
                 listening, stale, subscribed>>
  /\ UNCHANGED <<attachedElements, mediaVars, publishVars>>

\* _space.join() resolves; the call goes on into publishForLocalParticipant
\* and suspends there (getCamera, getMicrophone, publishTracks)
JoinHandshakeResolves ==
  /\ jpc = "handshake"
  /\ sdk' = IF sdk = "joining" THEN "connected" ELSE sdk
  /\ jpc' = "publish"
  /\ last' = Handled("joinSpace",
                   "awaitPublish",
                   FALSE)
  /\ UNCHANGED <<space, spaceEndsAt, localParticipant, remoteParticipants, isJoined,
                 joinError, isBroadcasting, screenShareTrack, screenShareError,
                 participantScreenSharing, listening, stale, subscribed>>
  /\ UNCHANGED <<attachedElements, mediaVars, publishVars>>

\* a track of the local participant; requested is the device id that the
\* call which published it was given
Publication(track, requested) ==
  [source |-> track.source, deviceId |-> track.deviceId, muted |-> track.muted,
   requested |-> requested]

\* the publishMicrophone or publishCamera call in flight: where it is
\* suspended, the deviceId it was given, the track getMicrophone or getCamera
\* returned, and whether the participant it captured is no longer the one in
\* localParticipant
IdleCall == [pc |-> "idle", deviceId |-> DefaultDevice, track |-> NoLocalTrack,
             orphan |-> FALSE]
Orphaned(call) == IF call.pc = "idle" THEN call ELSE [call EXCEPT !.orphan = TRUE]

\* fault variant: the camera is acquired although the camera is off
PublishForLocalParticipantCameraOn(pre, cam, mic) ==
  /\ cam \in IF pre.cameraDeviceId # ""
             THEN CameraOutcomes(pre.cameraDeviceId) ELSE {Skipped}
  /\ mic \in IF pre.microphoneDeviceId # ""
             THEN MicrophoneOutcomes(pre.microphoneDeviceId) ELSE {Skipped}
  /\ userMediaError' =
       IF mic.e # NoFailure THEN RecordedError(mic.e)
       ELSE IF cam.e # NoFailure THEN RecordedError(cam.e)
       ELSE userMediaError
  /\ activeCamera' = SlotAfter(activeCamera, cam.tracks, "camera")
  /\ activeMicrophone' =
       SlotAfter(activeMicrophone, Muted(mic.tracks, userWantsMicMuted), "microphone")
  /\ UNCHANGED userWantsMicMuted

\* publishForLocalParticipant up to publishTracks: getCamera and getMicrophone
\* as joinSpace awaits them, cam and mic being what their getUserMedia ended
\* with
PublishForLocalParticipant(pre, cam, mic) ==
  /\ cam \in IF pre.cameraDeviceId # "" /\ ~pre.cameraOff
             THEN CameraOutcomes(pre.cameraDeviceId) ELSE {Skipped}
  /\ mic \in IF pre.microphoneDeviceId # ""
             THEN MicrophoneOutcomes(pre.microphoneDeviceId) ELSE {Skipped}
  /\ userMediaError' =
       IF mic.e # NoFailure THEN RecordedError(mic.e)
       ELSE IF cam.e # NoFailure THEN RecordedError(cam.e)
       ELSE userMediaError
  /\ activeCamera' = SlotAfter(activeCamera, cam.tracks, "camera")
  /\ activeMicrophone' =
       SlotAfter(activeMicrophone, Muted(mic.tracks, userWantsMicMuted), "microphone")
  /\ UNCHANGED userWantsMicMuted

\* tracksToPublish, as the publications they become
TracksToPublish(pre, cam, mic) ==
  [i \in 1..Len(cam.tracks) |-> Publication(cam.tracks[i], pre.cameraDeviceId)]
    \o [i \in 1..Len(mic.tracks) |->
          Publication(Muted(mic.tracks, userWantsMicMuted)[i], pre.microphoneDeviceId)]

\* fault variant: the resolution of a call whose Space was left in the
\* meantime is dropped
JoinSpacePublishedUnlessLeft(broadcasting, pre, cam, mic) ==
  /\ jpc = "publish"
  /\ PublishForLocalParticipant(pre, cam, mic)
  /\ published' = IF listening THEN TracksToPublish(pre, cam, mic) ELSE published
  /\ pubCall' = IF listening THEN Orphaned(pubCall) ELSE pubCall
  /\ localParticipant' = IF listening THEN "LocalParticipant" ELSE localParticipant
  /\ isBroadcasting' = IF listening THEN broadcasting ELSE isBroadcasting
  /\ isJoined' = IF listening THEN TRUE ELSE isJoined
  /\ jpc' = "idle"
  /\ last' = [Handled("joinSpace",
                      "joined",
                      FALSE)
                EXCEPT !.pre = pre]
  /\ UNCHANGED <<attachedElements, space, spaceEndsAt, remoteParticipants, joinError, screenShareTrack,
                 screenShareError, participantScreenSharing, sdk, listening, stale,
                 subscribed>>

\* publishForLocalParticipant returns; broadcasting is _space.broadcasting
JoinSpacePublished(broadcasting, pre, cam, mic) ==
  /\ jpc = "publish"
  /\ PublishForLocalParticipant(pre, cam, mic)
  /\ published' = TracksToPublish(pre, cam, mic)
  /\ pubCall' = Orphaned(pubCall)
  /\ localParticipant' = "LocalParticipant"
  /\ isBroadcasting' = broadcasting
  /\ isJoined' = TRUE
  /\ jpc' = "idle"
  /\ last' = [Handled("joinSpace",
                      "joined",
                      FALSE)
                EXCEPT !.pre = pre]
  /\ UNCHANGED <<attachedElements, space, spaceEndsAt, remoteParticipants, joinError, screenShareTrack,
                 screenShareError, participantScreenSharing, sdk, listening, stale,
                 subscribed>>

\* localParticipant.publishTracks rejects inside publishForLocalParticipant
\* (a camera or microphone was pre-selected and acquired): the same catch as
\* a rejected handshake
JoinSpacePublishRejects(msg, pre, cam, mic) ==
  /\ jpc = "publish"
  /\ PublishForLocalParticipant(pre, cam, mic)
  /\ TracksToPublish(pre, cam, mic) # <<>>
  /\ JoinCatch(msg)
  /\ jpc' = "idle"
  /\ last' = [Handled("joinSpace",
                      "publishRejected",
                      FALSE)
                EXCEPT !.pre = pre]
  /\ UNCHANGED <<attachedElements, space, spaceEndsAt, localParticipant, remoteParticipants,
                 screenShareTrack, screenShareError, participantScreenSharing,
                 sdk, listening, stale, subscribed, publishVars>>

\* fault variant: the cleanup after the try instead of in a finally, so that
\* a throwing leave() skips it
LeaveSpaceWithoutFinally(leaveThrows) ==
  /\ leaveThrows => space # "null"
  /\ listening' = IF space # "null" THEN FALSE ELSE listening
  /\ sdk' = IF space # "null" /\ ~leaveThrows THEN "left" ELSE sdk
  /\ joinError' = IF leaveThrows THEN joinError ELSE "null"
  /\ remoteParticipants' = IF leaveThrows THEN remoteParticipants ELSE <<>>
  /\ isBroadcasting' = IF leaveThrows THEN isBroadcasting ELSE FALSE
  /\ localParticipant' = IF leaveThrows THEN localParticipant ELSE "null"
  /\ isJoined' = IF leaveThrows THEN isJoined ELSE FALSE
  /\ spaceEndsAt' = IF leaveThrows THEN spaceEndsAt ELSE 0
  /\ published' = IF leaveThrows THEN published ELSE <<>>
  /\ pubCall' = IF leaveThrows THEN pubCall ELSE Orphaned(pubCall)
  /\ last' = Handled("leaveSpace",
                   IF leaveThrows THEN "threw" ELSE "returned",
                   leaveThrows)
  /\ UNCHANGED <<attachedElements, space, screenShareTrack, screenShareError, participantScreenSharing,
                 stale, subscribed, jpc, mediaVars>>

\* fault variant: the finally without setIsJoined(false)
LeaveSpaceKeepsJoined(leaveThrows) ==
  /\ leaveThrows => space # "null"
  /\ listening' = IF space # "null" THEN FALSE ELSE listening
  /\ sdk' = IF space # "null" /\ ~leaveThrows THEN "left" ELSE sdk
  /\ joinError' = "null"
  /\ remoteParticipants' = <<>>
  /\ isBroadcasting' = FALSE
  /\ localParticipant' = "null"
  /\ isJoined' = isJoined
  /\ spaceEndsAt' = 0
  /\ published' = <<>>
  /\ pubCall' = Orphaned(pubCall)
  /\ last' = Handled("leaveSpace",
                   IF leaveThrows THEN "threw" ELSE "returned",
                   leaveThrows)
  /\ UNCHANGED <<attachedElements, space, screenShareTrack, screenShareError,
                 participantScreenSharing, stale, subscribed, jpc, mediaVars>>

\* ---- leaveSpace -----------------------------------------------------------------
\* try { space?.removeAllListeners(); space?.leave() } finally { ... }
LeaveSpace(leaveThrows) ==
  /\ leaveThrows => space # "null"
  /\ listening' = IF space # "null" THEN FALSE ELSE listening
  /\ sdk' = IF space # "null" /\ ~leaveThrows THEN "left" ELSE sdk
  /\ joinError' = "null"
  /\ remoteParticipants' = <<>>
  /\ isBroadcasting' = FALSE
  /\ localParticipant' = "null"
  /\ isJoined' = FALSE
  /\ spaceEndsAt' = 0
  /\ published' = <<>>
  /\ pubCall' = Orphaned(pubCall)
  /\ last' = Handled("leaveSpace",
                   IF leaveThrows THEN "threw" ELSE "returned",
                   leaveThrows)
  /\ UNCHANGED <<attachedElements, space, screenShareTrack, screenShareError, participantScreenSharing,
                 stale, subscribed, jpc, mediaVars>>

\* ---- publishing devices --------------------------------------------------------
\* Array.prototype.find on the tracks of the participant, matching being the
\* tracks the predicate accepts: the index of the first one, 0 when none
FindTrack(tracks, matching) ==
  IF \E i \in 1..Len(tracks) : tracks[i] \in matching
  THEN CHOOSE i \in 1..Len(tracks) :
         tracks[i] \in matching /\ \A j \in 1..(i-1) : tracks[j] \notin matching
  ELSE 0

\* publishMicrophone up to its first await: the test of localParticipant
PublishMicrophoneCall(deviceId) ==
  /\ pubCall.pc = "idle"
  /\ Len(published) < MaxPublished
  /\ pubCall' = IF localParticipant = "null" THEN pubCall
                ELSE [IdleCall EXCEPT !.pc = "getMicrophone", !.deviceId = deviceId]
  /\ last' = Handled("publishMicrophone",
                   IF localParticipant = "null" THEN "NotJoined" ELSE "awaitGetMicrophone",
                   localParticipant = "null")
  /\ UNCHANGED <<attachedElements, sessionVars, shareVars, remoteParticipants, screenShareError,
                 subscribed, mediaVars, published>>

\* getMicrophone(deviceId) returns, then the test of the published tracks:
\* the tracks of the captured participant, none once its session was left
PublishMicrophoneAcquired(out) ==
  LET tracks == IF pubCall.orphan THEN <<>> ELSE published
      publishedMic ==
        FindTrack(tracks, {t \in Elems(tracks) :
                             t.source = "microphone" /\ t.deviceId = pubCall.deviceId})
      micTrack == SlotAfter(NoLocalTrack, Muted(out.tracks, userWantsMicMuted), "microphone")
  IN /\ pubCall.pc = "getMicrophone"
     /\ out \in MicrophoneOutcomes(pubCall.deviceId)
     /\ userMediaError' = IF out.e # NoFailure THEN RecordedError(out.e) ELSE userMediaError
     /\ activeMicrophone' =
          SlotAfter(activeMicrophone, Muted(out.tracks, userWantsMicMuted), "microphone")
     /\ pubCall' = IF publishedMic # 0 THEN IdleCall
                   ELSE [pubCall EXCEPT !.pc = "publishTracks", !.track = micTrack]
     /\ last' = Handled("publishMicrophone",
                      IF publishedMic # 0 THEN "AlreadyPublished" ELSE "awaitPublishTracks",
                      publishedMic # 0)
     /\ UNCHANGED <<attachedElements, sessionVars, shareVars, remoteParticipants, screenShareError,
                    subscribed, activeCamera, userWantsMicMuted, published>>

\* publishTracks([micTrack]) resolves, then if (userWantsMicMuted) micTrack.mute()
PublishMicrophonePublished ==
  /\ pubCall.pc = "publishTracks"
  /\ pubCall.track # NoLocalTrack
  /\ published' =
       IF pubCall.orphan THEN published
       ELSE Append(published,
                   Publication(Muted(<<pubCall.track>>, userWantsMicMuted)[1],
                               pubCall.deviceId))
  /\ pubCall' = IdleCall
  /\ last' = Handled("publishMicrophone", "published", FALSE)
  /\ UNCHANGED <<attachedElements, sessionVars, shareVars, remoteParticipants, screenShareError,
                 subscribed, mediaVars>>

\* publishTracks rejects, as it does of the undefined that a failed
\* getMicrophone returned: nothing catches it
PublishMicrophoneRejects ==
  /\ pubCall.pc = "publishTracks"
  /\ pubCall' = IdleCall
  /\ last' = Handled("publishMicrophone", "publishRejected", TRUE)
  /\ UNCHANGED <<attachedElements, sessionVars, shareVars, remoteParticipants, screenShareError,
                 subscribed, mediaVars, published>>

\* publishCamera up to its first await: the test of localParticipant
PublishCameraCall(deviceId) ==
  /\ pubCall.pc = "idle"
  /\ Len(published) < MaxPublished
  /\ pubCall' = IF localParticipant = "null" THEN pubCall
                ELSE [IdleCall EXCEPT !.pc = "getCamera", !.deviceId = deviceId]
  /\ last' = Handled("publishCamera",
                   IF localParticipant = "null" THEN "NotJoined" ELSE "awaitGetCamera",
                   localParticipant = "null")
  /\ UNCHANGED <<attachedElements, sessionVars, shareVars, remoteParticipants, screenShareError,
                 subscribed, mediaVars, published>>

\* getCamera(deviceId) returns, then the test of the published tracks
PublishCameraAcquired(out) ==
  LET tracks == IF pubCall.orphan THEN <<>> ELSE published
      publishedCam ==
        FindTrack(tracks, {t \in Elems(tracks) :
                             t.source = "camera" /\ t.deviceId = pubCall.deviceId})
      camTrack == SlotAfter(NoLocalTrack, out.tracks, "camera")
  IN /\ pubCall.pc = "getCamera"
     /\ out \in CameraOutcomes(pubCall.deviceId)
     /\ userMediaError' = IF out.e # NoFailure THEN RecordedError(out.e) ELSE userMediaError
     /\ activeCamera' = SlotAfter(activeCamera, out.tracks, "camera")
     /\ pubCall' = IF publishedCam # 0 THEN IdleCall
                   ELSE [pubCall EXCEPT !.pc = "publishCameraTracks", !.track = camTrack]
     /\ last' = Handled("publishCamera",
                      IF publishedCam # 0 THEN "AlreadyPublished" ELSE "awaitPublishTracks",
                      publishedCam # 0)
     /\ UNCHANGED <<attachedElements, sessionVars, shareVars, remoteParticipants, screenShareError,
                    subscribed, activeMicrophone, userWantsMicMuted, published>>

\* publishTracks([camTrack]) resolves
PublishCameraPublished ==
  /\ pubCall.pc = "publishCameraTracks"
  /\ pubCall.track # NoLocalTrack
  /\ published' =
       IF pubCall.orphan THEN published
       ELSE Append(published, Publication(pubCall.track, pubCall.deviceId))
  /\ pubCall' = IdleCall
  /\ last' = Handled("publishCamera", "published", FALSE)
  /\ UNCHANGED <<attachedElements, sessionVars, shareVars, remoteParticipants, screenShareError,
                 subscribed, mediaVars>>

\* publishTracks rejects, as it does of the undefined that a failed getCamera
\* returned: nothing catches it
PublishCameraRejects ==
  /\ pubCall.pc = "publishCameraTracks"
  /\ pubCall' = IdleCall
  /\ last' = Handled("publishCamera", "publishRejected", TRUE)
  /\ UNCHANGED <<attachedElements, sessionVars, shareVars, remoteParticipants, screenShareError,
                 subscribed, mediaVars, published>>

\* ids a caller may pass to unPublishDevice
DeviceIds == MicrophoneIds \cup CameraIds \cup {DefaultDevice}

UnPublishDevice(deviceId) ==
  LET found == FindTrack(published, {t \in Elems(published) : t.deviceId = deviceId})
  IN /\ published' =
          IF localParticipant # "null" /\ found # 0
          THEN SubSeq(published, 1, found - 1) \o SubSeq(published, found + 1, Len(published))
          ELSE published
     /\ last' = Handled("unPublishDevice",
                      IF localParticipant = "null" THEN "NotJoined"
                        ELSE IF found # 0 THEN "unpublished"
                        ELSE "nothing",
                      localParticipant = "null")
     /\ UNCHANGED <<attachedElements, sessionVars, shareVars, remoteParticipants, screenShareError,
                    subscribed, mediaVars, pubCall>>

\* ---- forwarding to the SDK session --------------------------------------------
\* space.localParticipant of the SDK: set while connected, not before; what
\* a Space that was left answers is the SDK's choice (keeps)
SdkLocalParticipant(keeps) ==
  IF sdk = "connected" THEN TRUE ELSE IF sdk = "left" THEN keeps ELSE FALSE

SubmitAcrScore ==
  /\ last' = Handled("submitAcrScore",
                   IF space = "null" THEN "NotJoined" ELSE "forwarded",
                   space = "null")
  /\ UNCHANGED <<attachedElements, sessionVars, shareVars, remoteParticipants, screenShareError,
                 subscribed, mediaVars, publishVars>>

PublishCustomEvent(keeps) ==
  /\ IF sdk = "left" THEN TRUE ELSE keeps
  /\ last' = Handled("publishCustomEvent",
                   IF space # "null" /\ SdkLocalParticipant(keeps)
                     THEN "forwarded" ELSE "undefined",
                   FALSE)
  /\ UNCHANGED <<attachedElements, sessionVars, shareVars, remoteParticipants, screenShareError,
                 subscribed, mediaVars, publishVars>>

SetDisplayName(keeps) ==
  /\ IF sdk = "left" THEN TRUE ELSE keeps
  /\ last' = Handled("setDisplayName",
                   IF space # "null" /\ SdkLocalParticipant(keeps)
                     THEN "forwarded" ELSE "undefined",
                   FALSE)
  /\ UNCHANGED <<attachedElements, sessionVars, shareVars, remoteParticipants, screenShareError,
                 subscribed, mediaVars, publishVars>>

\* ---- startScreenShare ----------------------------------------------------------
\* how the call ends: getDisplayMedia rejects with a denial or with another
\* failure, resolves without a screenshare track, or returns the promise of
\* publishTracks, which resolves or rejects after the try block was left
ScreenShareEnds == {"denied", "displayFailed", "noTrack", "published", "publishRejected"}

\* err.message of the failures the catch sees
ScreenShareMessage(ends) ==
  IF ends = "denied" THEN "Permission denied"
  ELSE IF ends = "displayFailed" THEN "Could not start video source"
  ELSE "No screen share track found."

ScreenTrack == LocalTrack("screenshare", Undefined)

StartScreenShare(ends) ==
  LET caught == ends \in {"displayFailed", "noTrack"}
  IN /\ ends \in ScreenShareEnds
     /\ IF localParticipant = "null" THEN ends = "denied" ELSE TRUE
     /\ IF ends = "published" THEN Len(published) < MaxPublished ELSE TRUE
     /\ screenShareError' =
          IF localParticipant # "null" /\ caught
          THEN ScreenShareMessage(ends) ELSE screenShareError
     /\ published' =
          IF localParticipant # "null" /\ ends = "published"
          THEN Append(published, Publication(ScreenTrack, Undefined)) ELSE published
     /\ last' = Handled("startScreenShare",
                      IF localParticipant = "null" THEN "noParticipant" ELSE ends,
                      localParticipant # "null" /\ ends = "publishRejected")
     /\ UNCHANGED <<attachedElements, sessionVars, shareVars, remoteParticipants, subscribed, mediaVars,
                    pubCall>>

\* ---- stopScreenShare ------------------------------------------------------------
\* instanceof LocalTrack: the tracks of the local participant are LocalTracks
IsLocalTrack(track) == track.owner = LocalId

\* fault variant: the track of a remote participant is unpublished as well
StopScreenShareOfAnyOwner ==
  LET unpublishes == screenShareTrack # NoTrack /\ localParticipant # "null"
      found == FindTrack(published, {t \in Elems(published) : t.source = "screenshare"})
  IN /\ published' =
          IF unpublishes /\ found # 0
          THEN SubSeq(published, 1, found - 1) \o SubSeq(published, found + 1, Len(published))
          ELSE published
     /\ last' = Handled("stopScreenShare",
                      IF unpublishes THEN "unpublish" ELSE "nothing",
                      FALSE)
     /\ UNCHANGED <<attachedElements, sessionVars, shareVars, remoteParticipants,
                    screenShareError, subscribed, mediaVars, pubCall>>

\* the early return, then localParticipant.unpublishTracks([screenShareTrack]):
\* the participant no longer publishes the track, if it did
StopScreenShare ==
  LET unpublishes ==
        screenShareTrack # NoTrack /\ IsLocalTrack(screenShareTrack)
          /\ localParticipant # "null"
      found == FindTrack(published, {t \in Elems(published) : t.source = "screenshare"})
  IN /\ published' =
          IF unpublishes /\ found # 0
          THEN SubSeq(published, 1, found - 1) \o SubSeq(published, found + 1, Len(published))
          ELSE published
     /\ last' = Handled("stopScreenShare",
                      IF unpublishes THEN "unpublish" ELSE "nothing",
                      FALSE)
     /\ UNCHANGED <<attachedElements, sessionVars, shareVars, remoteParticipants,
                    screenShareError, subscribed, mediaVars, pubCall>>

\* ---- attachScreenShare ----------------------------------------------------------
\* attachedElements.forEach((el) => track.detach(el)): detach takes el out of
\* the list.  When the getter hands out the list itself (live), forEach goes
\* on at the next index of the list as the removal left it; when it hands out
\* a copy, every element is visited.  The SDK is not among the sources: which
\* of the two it does is an input.
RECURSIVE DetachEach(_, _, _)
DetachEach(els, i, live) ==
  IF ~live THEN <<>>
  ELSE IF i > Len(els) THEN els
  ELSE DetachEach(SubSeq(els, 1, i - 1) \o SubSeq(els, i + 1, Len(els)), i + 1, live)

\* fault variant: the element is attached and nothing is detached
AttachScreenShareWithoutDetach(element, live) ==
  /\ attachedElements' =
       IF screenShareTrack = NoTrack THEN attachedElements
       ELSE [attachedElements EXCEPT
               ![screenShareTrack] = Append(attachedElements[screenShareTrack], element)]
  /\ last' = Handled("attachScreenShare",
                   IF screenShareTrack = NoTrack THEN "nothing"
                     ELSE IF attachedElements[screenShareTrack] # <<>> THEN "replaced"
                     ELSE "attached",
                   FALSE)
  /\ UNCHANGED <<sessionVars, shareVars, remoteParticipants, screenShareError,
                 subscribed, mediaVars, publishVars>>

\* screenShareTrack?. makes both statements nothing when no track is recorded
AttachScreenShare(element, live) ==
  /\ attachedElements' =
       IF screenShareTrack = NoTrack THEN attachedElements
       ELSE [attachedElements EXCEPT
               ![screenShareTrack] =
                  Append(DetachEach(attachedElements[screenShareTrack], 1, live), element)]
  /\ last' = Handled("attachScreenShare",
                   IF screenShareTrack = NoTrack THEN "nothing"
                     ELSE IF attachedElements[screenShareTrack] # <<>> THEN "replaced"
                     ELSE "attached",
                   FALSE)
  /\ UNCHANGED <<sessionVars, shareVars, remoteParticipants, screenShareError,
                 subscribed, mediaVars, publishVars>>

Init ==
  /\ space = "null"
  /\ spaceEndsAt = 0
  /\ localParticipant = "null"
  /\ remoteParticipants = <<>>
  /\ isJoined = FALSE
  /\ joinError = "null"
  /\ isBroadcasting = FALSE
  /\ screenShareTrack = NoTrack
  /\ screenShareError = "null"
  /\ participantScreenSharing = NoParticipant
  /\ sdk = "none"
  /\ listening = FALSE
  /\ stale = FALSE
  /\ subscribed = {}
  /\ jpc = "idle"
  /\ activeMicrophone = NoLocalTrack
  /\ activeCamera = NoLocalTrack
  /\ userMediaError = "undefined"
  /\ userWantsMicMuted = FALSE
  /\ published = <<>>
  /\ pubCall = IdleCall
  /\ attachedElements = [t \in ShareTracks |-> <<>>]
  /\ last = Handled("init", "done", FALSE)

\* ---- the next-state relation ------------------------------------------------
\* what one awaited getUserMedia of joinSpace may end with, its failures
\* taken from Fail
MediaOutcomes(Fail) ==
  {Skipped}
    \cup {Acquired(<<LocalTrack("microphone", d)>>) : d \in MicrophoneIds}
    \cup {Acquired(<<LocalTrack("camera", d)>>) : d \in CameraIds}
    \cup {Failed(e) : e \in Fail}

\* every state of the preferences joinSpace reads
PreSelections ==
  {PreSelection(c, off, m) :
     c \in CameraIds \cup {""}, off \in BOOLEAN, m \in MicrophoneIds \cup {""}}

\* a pre-selected microphone
MicPreSelected == PreSelection("", FALSE, "mic1")

\* the calls the UI makes on the session and the resolutions of their awaits,
\* for the preferences Pre and the acquisition failures Fail
SessionStep(Pre, Fail) ==
  \/ \E msg \in CtorErrors : JoinSpaceCtorThrows(msg)
  \/ \E endsAt \in EndsAtValues : JoinSpaceStart(endsAt)
  \/ \E msg \in JoinErrors : JoinHandshakeRejects(msg)
  \/ JoinHandshakeResolves
  \/ \E b \in BOOLEAN, pre \in Pre :
       \E cam \in MediaOutcomes(Fail), mic \in MediaOutcomes(Fail) :
         JoinSpacePublished(b, pre, cam, mic)
  \/ \E msg \in PublishErrors, pre \in Pre :
       \E cam \in MediaOutcomes(Fail), mic \in MediaOutcomes(Fail) :
         JoinSpacePublishRejects(msg, pre, cam, mic)
  \/ \E t \in BOOLEAN : LeaveSpace(t)

\* the events about the remote participants R (and the local one) that change
\* the roster
RosterEvent(R) ==
  \/ \E p \in R : ParticipantJoined(p)
  \/ \E p \in R : ParticipantLeft(p)
  \/ \E changes \in UNION {[1..n -> R \cup {LocalId}] : n \in 1..MaxBatch} :
       ActiveSpeakersChanged(changes)
  \/ \E p \in R \cup {LocalId} : ParticipantDisplayNameChanged(p)

\* the track events of the participants R (and the local one) for the sources S
TrackEvent(R, S) ==
  \/ \E p \in R \cup {LocalId}, src \in S, m \in BOOLEAN : ParticipantTrackPublished(p, src, m)
  \/ \E p \in R \cup {LocalId}, src \in S, m \in BOOLEAN : ParticipantTrackSubscribed(p, src, m)
  \/ \E p \in R \cup {LocalId}, src \in S : ParticipantTrackUnpublished(p, src)
  \/ \E p \in R \cup {LocalId}, src \in S, st \in BOOLEAN :
       ParticipantTrackUnsubscribed(p, src, st)

\* what a bulk request may end with, its failures taken from Fail
BulkWithin(microphoneDeviceId, cameraDeviceId, Fail) ==
  {out \in BulkOutcomes(microphoneDeviceId, cameraDeviceId) :
     out.e \in Fail \cup {NoFailure}}

\* the calls on the Device Inventory Manager, their getUserMedia failing with
\* the failures Fail
DeviceStep(Fail) ==
  \/ \E d \in MicrophoneIds \cup {DefaultDevice} :
       \E out \in MediaOutcomes(Fail) : GetMicrophone(d, out)
  \/ \E d \in CameraIds \cup {DefaultDevice} :
       \E out \in MediaOutcomes(Fail) : GetCamera(d, out)
  \/ \E m \in MicrophoneIds \cup {DefaultDevice, Undefined},
        c \in CameraIds \cup {DefaultDevice, Undefined} :
       \E out \in BulkWithin(m, c, Fail),
          fallback \in BulkWithin(DefaultDevice, DefaultDevice, Fail) :
         RequestPermissionAndStartDevices(m, c, out, fallback)
  \/ StopActiveCamera
  \/ \E mute \in BOOLEAN : SetUserWantsMicMuted(mute)

\* publishMicrophone, publishCamera and unPublishDevice
PublishStep(Fail) ==
  \/ \E d \in MicrophoneIds \cup {DefaultDevice} : PublishMicrophoneCall(d)
  \/ \E out \in MediaOutcomes(Fail) : PublishMicrophoneAcquired(out)
  \/ PublishMicrophonePublished
  \/ PublishMicrophoneRejects
  \/ \E d \in CameraIds \cup {DefaultDevice} : PublishCameraCall(d)
  \/ \E out \in MediaOutcomes(Fail) : PublishCameraAcquired(out)
  \/ PublishCameraPublished
  \/ PublishCameraRejects
  \/ \E d \in DeviceIds : UnPublishDevice(d)

ForwardStep ==
  \/ SubmitAcrScore
  \/ \E keeps \in BOOLEAN : PublishCustomEvent(keeps)
  \/ \E keeps \in BOOLEAN : SetDisplayName(keeps)

Next ==
  \/ SessionStep(PreSelections, MediaFailures)
  \/ RosterEvent(Remote)
  \/ TrackEvent(Remote, Sources)
  \/ \E b \in BOOLEAN : BroadcastStateChanged(b)
  \/ DeviceStep(MediaFailures)
  \/ PublishStep(MediaFailures)
  \/ ForwardStep
  \/ \E ends \in ScreenShareEnds : StartScreenShare(ends)
  \/ StopScreenShare
  \/ \E element \in Elements, live \in BOOLEAN : AttachScreenShare(element, live)

\* the whole provider
Spec == Init /\ [][Next]_vars

\* The session lifecycle with every failure it can meet, and the events that
\* fill what leaveSpace and joinSpace write: the roster, the screen-share
\* slot and the broadcast flag.  The pre-selected devices are acquired
\* without failure; one remote participant comes and goes.
NextSession ==
  \/ SessionStep({NoPreSelection, MicPreSelected}, {})
  \/ ParticipantJoined(1)
  \/ ParticipantLeft(1)
  \/ \E p \in Present \cup {LocalId}, m \in BOOLEAN :
       ParticipantTrackPublished(p, "screenshare", m)
  \/ \E p \in Present \cup {LocalId} : ParticipantTrackUnpublished(p, "screenshare")
  \/ \E b \in BOOLEAN : BroadcastStateChanged(b)

SpecSession == Init /\ [][NextSession]_vars

\* The roster under a session that joins and leaves without failures; camera
\* tracks only, so that the screen-share slot stays as it is.
NextRoster ==
  \/ JoinSpaceStart(1)
  \/ JoinHandshakeResolves
  \/ JoinSpacePublished(FALSE, NoPreSelection, Skipped, Skipped)
  \/ LeaveSpace(FALSE)
  \/ RosterEvent(Present)
  \/ \E p \in Present \cup {LocalId} : ParticipantTrackSubscribed(p, "camera", TRUE)
  \/ \E p \in Present \cup {LocalId}, st \in BOOLEAN :
       ParticipantTrackUnsubscribed(p, "camera", st)

SpecRoster == Init /\ [][NextRoster]_vars

\* a session that joins and leaves without failures
JoinAndLeave(Pre) ==
  \/ JoinSpaceStart(0)
  \/ JoinHandshakeResolves
  \/ \E pre \in Pre : \E mic \in MediaOutcomes({}) :
       JoinSpacePublished(FALSE, pre, Skipped, mic)
  \/ LeaveSpace(FALSE)

\* the failure of the device that is not there
NotFound == {[name |-> "NotFoundError", dom |-> TRUE]}

\* Publishing and unpublishing devices and the forwarding calls, under a
\* session that joins and leaves.
NextPublish ==
  \/ JoinAndLeave({NoPreSelection, MicPreSelected})
  \/ PublishStep(NotFound)
  \/ ForwardStep

SpecPublish == Init /\ [][NextPublish]_vars

\* The Device Inventory Manager on its own.
NextDevices == DeviceStep(MediaFailures)

SpecDevices == Init /\ [][NextDevices]_vars

\* The screen-share slot: the track events of screen shares and cameras, and
\* the local participant starting a share.
NextShare ==
  \/ JoinAndLeave({NoPreSelection})
  \/ TrackEvent(Present, {"screenshare", "camera"})
  \/ \E ends \in ScreenShareEnds : StartScreenShare(ends)
  \/ StopScreenShare

SpecShare == Init /\ [][NextShare]_vars

\* The render targets of the screen share: the events that record and clear
\* the track, and the components that attach it.
NextAttach ==
  \/ JoinAndLeave({NoPreSelection})
  \/ \E p \in Present \cup {LocalId}, m \in BOOLEAN :
       ParticipantTrackPublished(p, "screenshare", m)
  \/ \E p \in Present \cup {LocalId} : ParticipantTrackUnpublished(p, "screenshare")
  \/ \E element \in Elements, live \in BOOLEAN : AttachScreenShare(element, live)

SpecAttach == Init /\ [][NextAttach]_vars

\* joinSpace under every state of the preferences it reads, the mute
\* preference included, the acquisitions failing or not.
NextPreselect ==
  \/ SessionStep(PreSelections, NotFound)
  \/ \E mute \in BOOLEAN : SetUserWantsMicMuted(mute)

SpecPreselect == Init /\ [][NextPreselect]_vars

\* The roster alone, every remote connection coming, going and speaking on a
\* Space that joins: the events that add, remove and promote entries.
NextSpeakers ==
  \/ JoinSpaceStart(0)
  \/ JoinHandshakeResolves
  \/ \E p \in Remote : ParticipantJoined(p)
  \/ \E p \in Remote : ParticipantLeft(p)
  \/ \E changes \in UNION {[1..n -> Participants] : n \in 1..MaxBatch} :
       ActiveSpeakersChanged(changes)

SpecSpeakers == Init /\ [][NextSpeakers]_vars


\* ---- properties ------------------------------------------------------------------
JoinSpaceEnded ==
  last.op = "joinSpace" /\ last.res \in {"ctorThrew", "joinRejected", "publishRejected", "joined"}

SubscriptionReorder ==
  last.op \in {"trackSubscribed", "trackUnsubscribed"} /\ last.res # "local"

\* every subscribed entry of the roster precedes every unsubscribed one
Partitioned(roster, subs) ==
  \A i, j \in 1..Len(roster) : (roster[i] \notin subs /\ roster[j] \in subs) => j < i

\* C1: right after leaveSpace() the roster is empty, localParticipant is null
\* and isJoined is false, whether the SDK's leave() returned or threw.
C1_LeaveClearsSession ==
  last.op = "leaveSpace" =>
    /\ remoteParticipants = <<>>
    /\ localParticipant = "null"
    /\ isJoined = FALSE

\* leaveSpace has run on a Space whose leave() threw
C1_Witness == last.op = "leaveSpace" /\ last.threw /\ space = "Space"

\* C2 (as claimed): right after leaveSpace() the screen-share track and its
\* owner are unset and the broadcasting flag is false, whether or not leave()
\* failed.
C2_LeaveClearsShare ==
  last.op = "leaveSpace" =>
    /\ screenShareTrack = NoTrack
    /\ participantScreenSharing = NoParticipant
    /\ isBroadcasting = FALSE

\* C3: in every reachable state no two entries of the roster have the same
\* connection id.
C3_UniqueConnectionIds ==
  \A i, j \in 1..Len(remoteParticipants) :
    remoteParticipants[i] = remoteParticipants[j] => i = j

\* a join event for a present id has just been handled in a roster of two
C3_Witness ==
  /\ last.op = "participantJoined" /\ last.res = "present"
  /\ Len(remoteParticipants) >= 2

\* C4: a participant-joined event for a connection id in the roster leaves
\* the roster as it is; for any other id the roster is the old one with the
\* participant appended at the end.
C4_JoinedIsIdempotentAppend ==
  [][\A p \in Remote :
       (last'.op = "participantJoined" /\ ParticipantJoined(p)) =>
         IF \E i \in 1..Len(remoteParticipants) : remoteParticipants[i] = p
         THEN remoteParticipants' = remoteParticipants
         ELSE /\ Len(remoteParticipants') = Len(remoteParticipants) + 1
              /\ remoteParticipants'[Len(remoteParticipants')] = p
              /\ \A i \in 1..Len(remoteParticipants) :
                   remoteParticipants'[i] = remoteParticipants[i]]_vars

\* a participant has just been appended behind another one
C4_Witness ==
  /\ last.op = "participantJoined" /\ last.res = "added"
  /\ Len(remoteParticipants) >= 2

\* C5: a track-subscribed or track-unsubscribed event of a remote participant
\* leaves the roster a stable partition of the previous one: the same
\* connection ids, the subscribed ones first, and inside each group the order
\* they had before.
C5_StablePartition ==
  [][(last'.op \in {"trackSubscribed", "trackUnsubscribed"} /\ last'.res # "local") =>
       /\ Len(remoteParticipants') = Len(remoteParticipants)
       /\ Elems(remoteParticipants') = Elems(remoteParticipants)
       /\ Partitioned(remoteParticipants', subscribed')
       /\ \A a, b \in Elems(remoteParticipants) :
            ((a \in subscribed') = (b \in subscribed')
              /\ FindIndex(remoteParticipants, a) < FindIndex(remoteParticipants, b))
            => FindIndex(remoteParticipants', a) < FindIndex(remoteParticipants', b)]_vars

\* a subscription event has just moved an entry of a roster of two
C5_Witness ==
  /\ SubscriptionReorder /\ last.res = "reordered"
  /\ Len(remoteParticipants) >= 2

\* the named participants that were at or beyond the last slot of the page
Beyond(roster, named) ==
  {p \in named : FindIndex(roster, p) >= MAX_PARTICIPANTS_PER_PAGE - 1}

\* C6 (as claimed): after an active-speaker event on a roster of at least
\* MAX_PARTICIPANTS_PER_PAGE entries, every named remote participant that was
\* at index >= MAX_PARTICIPANTS_PER_PAGE - 1 is at index 0 and every named one
\* that was below stays at its index.
C6_EveryNamedSpeaker ==
  [][(/\ last'.op = "activeSpeakersChanged"
      /\ Len(remoteParticipants) >= MAX_PARTICIPANTS_PER_PAGE) =>
       \A p \in last'.named :
         IF p \in Beyond(remoteParticipants, last'.named)
         THEN FindIndex(remoteParticipants', p) = 0
         ELSE FindIndex(remoteParticipants', p) = FindIndex(remoteParticipants, p)]_vars

\* C6 (amended): the claim holds of an event that names one participant.  Of a
\* batch: when no named remote participant is at index
\* >= MAX_PARTICIPANTS_PER_PAGE - 1 the roster is unchanged, otherwise the
\* entry at index 0 is one of the named participants.
C6_SingleSpeaker ==
  [][(/\ last'.op = "activeSpeakersChanged"
      /\ Len(remoteParticipants) >= MAX_PARTICIPANTS_PER_PAGE) =>
       LET beyond == Beyond(remoteParticipants, last'.named)
       IN /\ last'.single =>
               \A p \in last'.named :
                 IF p \in beyond
                 THEN FindIndex(remoteParticipants', p) = 0
                 ELSE FindIndex(remoteParticipants', p) = FindIndex(remoteParticipants, p)
          /\ beyond = {} => remoteParticipants' = remoteParticipants
          /\ beyond # {} => remoteParticipants'[1] \in last'.named]_vars

\* an active-speaker event has just promoted a participant of a full page
C6_Witness ==
  /\ last.op = "activeSpeakersChanged" /\ last.res = "promoted" /\ last.single
  /\ Len(remoteParticipants) >= MAX_PARTICIPANTS_PER_PAGE
  /\ remoteParticipants[1] \in last.named

\* C7 (as claimed): after every reorder of the roster, by an active-speaker
\* event or by a subscription event, the subscribed participants precede all
\* unsubscribed ones.
C7_PartitionedAfterEveryReorder ==
  ((last.op = "activeSpeakersChanged" /\ last.res = "promoted") \/ SubscriptionReorder)
    => Partitioned(remoteParticipants, subscribed)

\* C7 (amended): after every reorder of the roster by a subscription event
\* (track subscribed or unsubscribed of a remote participant) the subscribed
\* participants precede all unsubscribed ones.
C7_PartitionedAfterSubscription ==
  SubscriptionReorder => Partitioned(remoteParticipants, subscribed)

\* a subscription event has just been handled in a roster with a subscribed
\* and an unsubscribed participant
C7_Witness ==
  /\ SubscriptionReorder
  /\ \E a, b \in Elems(remoteParticipants) : a \in subscribed /\ b \notin subscribed

\* C8 (as claimed): a joinSpace call that fails, in the constructor or in the
\* handshake, ends with joinError set to the message, isJoined and
\* isBroadcasting false, and does not throw.
C8_FailedJoinResets ==
  (last.op = "joinSpace" /\ last.res \in {"ctorThrew", "joinRejected"}) =>
    /\ joinError \in (IF last.res = "ctorThrew" THEN CtorErrors ELSE JoinErrors)
    /\ isJoined = FALSE
    /\ isBroadcasting = FALSE
    /\ ~last.threw

\* C8 (amended): a joinSpace call whose handshake rejects ends with joinError
\* set to the message and isJoined and isBroadcasting false; one whose
\* constructor throws ends with joinError set to the message and isJoined and
\* isBroadcasting as they were before the call; neither throws.
C8_FailedJoinByStage ==
  [][/\ (last'.op = "joinSpace" /\ last'.res = "joinRejected") =>
          /\ joinError' \in JoinErrors
          /\ isJoined' = FALSE
          /\ isBroadcasting' = FALSE
          /\ ~last'.threw
     /\ (last'.op = "joinSpace" /\ last'.res = "ctorThrew") =>
          /\ joinError' \in CtorErrors
          /\ isJoined' = isJoined
          /\ isBroadcasting' = isBroadcasting
          /\ ~last'.threw]_vars

\* the constructor has just thrown in a joinSpace call made while joined and
\* broadcasting
C8_Witness ==
  /\ last.op = "joinSpace" /\ last.res = "ctorThrew"
  /\ isJoined /\ isBroadcasting

\* C9 (as claimed): a joinSpace call whose handshake succeeded ends with
\* isJoined true and the local participant set, whatever the publishing of the
\* pre-selected tracks does.
C9_HandshakeSuccessJoins ==
  (last.op = "joinSpace" /\ last.res \in {"joined", "publishRejected"}) =>
    /\ isJoined = TRUE
    /\ localParticipant # "null"

\* C10 (as claimed): isJoined and a non-null joinError never hold together: a
\* joinSpace that succeeds after a failed attempt leaves joinError null.
C10_JoinedWithoutError == ~(isJoined /\ joinError # "null")

\* a publication of the microphone that a call given deviceId published
HoldsMicrophoneOf(deviceId) ==
  \E i \in 1..Len(published) :
    published[i].source = "microphone" /\ published[i].requested = deviceId

\* C11 (as claimed): publishMicrophone goes past its first test only with a
\* local participant, and a call given a device id, the empty one included,
\* that an earlier call was given and whose publication the participant still
\* holds fails with AlreadyPublished instead of going on to publish.
C11_SecondPublishFails ==
  /\ (last.op = "publishMicrophone" /\ last.res = "awaitGetMicrophone")
       => localParticipant # "null"
  /\ (last.op = "publishMicrophone" /\ last.res = "awaitPublishTracks" /\ ~pubCall.orphan)
       => ~HoldsMicrophoneOf(pubCall.deviceId)

\* C12 (as claimed): unPublishDevice throws when there is no local
\* participant and when the participant has no publication of the device; it
\* returns only after unpublishing one.
C12_UnpublishNeedsPublication ==
  last.op = "unPublishDevice" =>
    IF last.res = "unpublished" THEN ~last.threw ELSE last.threw

\* no session exists: before the first Space is built, and from leaveSpace to
\* the next one
NoSession == ~listening

\* C13 (as claimed): while no session exists submitAcrScore fails with
\* NotJoined, publishCustomEvent and setDisplayName return undefined, and none
\* of them calls the SDK.
C13_NoForwardWithoutSession ==
  (NoSession /\ last.op \in {"submitAcrScore", "publishCustomEvent", "setDisplayName"}) =>
    last.res = (IF last.op = "submitAcrScore" THEN "NotJoined" ELSE "undefined")

\* C14: a track-published or track-subscribed event of a screen-share track
\* with media of participant p leaves that track and p in the screen-share
\* slot, whatever the slot held; an unpublished event of the track in the slot
\* leaves the slot unset.
C14_ShareRecordedThenCleared ==
  [][\A p \in Participants :
       /\ (\/ last'.op = "trackPublished" /\ ParticipantTrackPublished(p, "screenshare", TRUE)
           \/ last'.op = "trackSubscribed" /\ ParticipantTrackSubscribed(p, "screenshare", TRUE))
            => /\ screenShareTrack' = TrackOf(p, "screenshare")
               /\ participantScreenSharing' = p
       /\ (/\ last'.op = "trackUnpublished"
           /\ ParticipantTrackUnpublished(p, "screenshare")
           /\ screenShareTrack = TrackOf(p, "screenshare"))
            => /\ screenShareTrack' = NoTrack
               /\ participantScreenSharing' = NoParticipant]_vars

\* the share of a remote participant has just replaced the share of another
\* participant
C14_Witness ==
  /\ last.op = "trackPublished" /\ last.res = "replaced"
  /\ participantScreenSharing \in Remote
  /\ screenShareTrack = TrackOf(participantScreenSharing, "screenshare")

\* C15 (as claimed): a track-unpublished or track-unsubscribed event of a
\* track that is not the one in the screen-share slot, a screen-share track
\* of another participant included, leaves the slot as it is.
C15_OtherTrackKeepsShare ==
  [][\A p \in Participants, src \in {"screenshare", "camera"} :
       (/\ last'.op \in {"trackUnpublished", "trackUnsubscribed"}
        /\ \/ ParticipantTrackUnpublished(p, src)
           \/ \E st \in BOOLEAN : ParticipantTrackUnsubscribed(p, src, st)
        /\ screenShareTrack # TrackOf(p, src))
         => UNCHANGED shareVars]_vars

\* C16 (as claimed): getMicrophone, getCamera and
\* requestPermissionAndStartDevices never throw, and one whose acquisition
\* failed without recovery has left userMediaError set.
C16_DeviceCallsNeverThrow ==
  last.op \in {"getMicrophone", "getCamera", "requestPermissionAndStartDevices"} =>
    /\ ~last.threw
    /\ last.res \in {"failed", "fallbackRejected"} => userMediaError # "undefined"

\* the error that the kind of a failure stands for
ErrorOfKind(e) ==
  IF e.name \in {"NotAllowedError", "PermissionDeniedError"} THEN "NotAllowedError"
  ELSE IF e.name \in {"OverconstrainedError", "ConstraintNotSatisfiedError"}
       THEN "OverconstrainedError"
  ELSE e.name

\* C17 (as claimed): a failed getMicrophone or getCamera records
\* NotAllowedError for a denial, OverconstrainedError for an unsatisfiable
\* constraint, and for any other failure that failure's own name.
C17_ErrorByFailureKind ==
  [][\A e \in MediaFailures :
       (\/ /\ last'.op = "getMicrophone"
           /\ \E d \in MicrophoneIds \cup {DefaultDevice} : GetMicrophone(d, Failed(e))
        \/ /\ last'.op = "getCamera"
           /\ \E d \in CameraIds \cup {DefaultDevice} : GetCamera(d, Failed(e)))
         => userMediaError' = ErrorOfKind(e)]_vars

\* C18 (as claimed): requestPermissionAndStartDevices given undefined for the
\* microphone asks for no audio and leaves the active microphone as it is,
\* and given undefined for the camera asks for no video and leaves the active
\* camera as it is.
C18_UndefinedIsNotRequested ==
  [][last'.op = "requestPermissionAndStartDevices" =>
       /\ "audio" \notin last'.given =>
            ("audio" \notin last'.asked /\ activeMicrophone' = activeMicrophone)
       /\ "video" \notin last'.given =>
            ("video" \notin last'.asked /\ activeCamera' = activeCamera)]_vars

\* C19 (as claimed): startScreenShare never throws; a denial leaves
\* screenShareError as it is, every other failure leaves it set.
C19_ShareFailuresRecorded ==
  [][last'.op = "startScreenShare" =>
       /\ ~last'.threw
       /\ last'.res = "denied" => screenShareError' = screenShareError
       /\ last'.res \in {"displayFailed", "noTrack", "publishRejected"}
            => screenShareError' # "null"]_vars

\* C20: a joinSpace call whose Space was left by leaveSpace before its
\* handshake and publishing ended still ends with the local participant set
\* and isJoined true.
C20_LeftCallStillJoins ==
  (last.op = "joinSpace" /\ last.res = "joined" /\ ~listening) =>
    /\ isJoined
    /\ localParticipant = "LocalParticipant"

\* a joinSpace call has just ended joined on a Space that leaveSpace had left
\* during the call
C20_Witness ==
  /\ last.op = "joinSpace" /\ last.res = "joined"
  /\ ~listening /\ sdk = "left"
  /\ isJoined

\* C21: the step of joinSpace that starts the handshake leaves the handlers
\* bound, and from then on only leaveSpace unbinds them, so that the Space
\* delivers to them every event of the handshake and after it; the step that
\* ends in the constructor's catch binds no handler and starts no handshake.
C21_HandlersBoundBeforeHandshake ==
  [][/\ (last'.op = "joinSpace" /\ last'.res = "awaitJoin") =>
          (listening' /\ sdk' = "joining" /\ EventsDelivered')
     /\ (listening /\ ~listening') => last'.op = "leaveSpace"
     /\ (last'.op = "joinSpace" /\ last'.res = "ctorThrew") =>
          UNCHANGED <<space, listening, sdk, jpc>>]_vars

\* an event of the Space whose handshake is still in flight was handled
C21_Witness ==
  /\ last.op = "participantJoined" /\ last.res = "added"
  /\ jpc = "handshake" /\ sdk = "joining" /\ ~stale
  /\ remoteParticipants # <<>>

\* a comes before b in the roster
Precedes(roster, a, b) == FindIndex(roster, a) < FindIndex(roster, b)

\* C22: a participant-left event for connection id p removes the entry of p
\* and no other: the ids of the roster are the old ones without p, one entry
\* is gone when p was there and none when it was not, and the entries that
\* stay keep the order they had.
C22_LeftRemovesThatEntry ==
  [][\A p \in Remote :
       (last'.op = "participantLeft" /\ ParticipantLeft(p)) =>
         /\ Elems(remoteParticipants') = Elems(remoteParticipants) \ {p}
         /\ Len(remoteParticipants') =
              Len(remoteParticipants) - (IF p \in Elems(remoteParticipants) THEN 1 ELSE 0)
         /\ \A a, b \in Elems(remoteParticipants') :
              Precedes(remoteParticipants', a, b) = Precedes(remoteParticipants, a, b)
         /\ p \notin Elems(remoteParticipants) =>
              remoteParticipants' = remoteParticipants]_vars

\* an entry has just left a roster of three: the two that stay are in the
\* order of their ids, the order they joined in or were promoted to
C22_Witness ==
  /\ last.op = "participantLeft" /\ last.res = "removed"
  /\ Len(remoteParticipants) = 2
  /\ remoteParticipants[1] < remoteParticipants[2]

\* the indices of the tracks of a source among the published ones
PublishedOf(tracks, src) == {i \in 1..Len(tracks) : tracks[i].source = src}

\* C23: the step that ends joinSpace joined has published what was
\* pre-selected: with the camera off no camera was acquired or published; a
\* pre-selected microphone was acquired and published, muted as the mute
\* preference says, unless its acquisition failed; and isJoined becomes true
\* in that step and in no other.
C23_PreSelectedTracksPublished ==
  [][/\ (last'.op = "joinSpace" /\ last'.res = "joined") =>
          LET pre == last'.pre
              cams == PublishedOf(published', "camera")
              mics == PublishedOf(published', "microphone")
          IN /\ isJoined'
             /\ pre.cameraOff => (cams = {} /\ activeCamera' = activeCamera)
             /\ pre.microphoneDeviceId # "" =>
                  IF mics # {}
                  THEN \A i \in mics :
                         /\ published'[i].requested = pre.microphoneDeviceId
                         /\ published'[i].muted = userWantsMicMuted
                         /\ activeMicrophone'.deviceId = published'[i].deviceId
                         /\ activeMicrophone'.muted = published'[i].muted
                  ELSE /\ activeMicrophone' = activeMicrophone
                       /\ userMediaError' # "undefined"
     /\ (isJoined' /\ ~isJoined) => (last'.op = "joinSpace" /\ last'.res = "joined")]_vars

\* joinSpace has just ended joined with a camera pre-selected but off and the
\* mute preference set: the pre-selected microphone is published muted and
\* no camera is published
C23_Witness ==
  /\ last.op = "joinSpace" /\ last.res = "joined"
  /\ last.pre.cameraOff /\ last.pre.cameraDeviceId # ""
  /\ last.pre.microphoneDeviceId # ""
  /\ userWantsMicMuted
  /\ PublishedOf(published, "camera") = {}
  /\ \E i \in PublishedOf(published, "microphone") : published[i].muted

\* C24 (as claimed): a publishMicrophone or publishCamera call that fails
\* with NotJoined or with AlreadyPublished has acquired no device: the step
\* in which it throws leaves the active microphone, the active camera and
\* userMediaError as they were.
C24_FailedPublishAcquiresNothing ==
  [][(/\ last'.op \in {"publishMicrophone", "publishCamera"}
      /\ last'.res \in {"NotJoined", "AlreadyPublished"}) =>
       UNCHANGED <<activeMicrophone, activeCamera, userMediaError>>]_vars

\* C25: stopScreenShare unpublishes exactly when the recorded share track is
\* a track of the local participant and a local participant exists; in every
\* other case the published tracks stay as they are; and in no case does the
\* call itself change the recorded track, its owner or screenShareError.
C25_StopUnpublishesLocalShareOnly ==
  [][last'.op = "stopScreenShare" =>
       /\ (last'.res = "unpublish") =
            (/\ screenShareTrack # NoTrack
             /\ screenShareTrack.owner = LocalId
             /\ localParticipant # "null")
       /\ last'.res # "unpublish" => published' = published
       /\ PublishedOf(published', "camera") = PublishedOf(published, "camera")
       /\ UNCHANGED <<shareVars, screenShareError>>]_vars

\* stopScreenShare has just called unpublishTracks with the recorded share
\* of the local participant: the participant publishes no screen share, and
\* the track stays recorded until the event of its unpublishing comes
C25_Witness ==
  /\ last.op = "stopScreenShare" /\ last.res = "unpublish"
  /\ screenShareTrack = TrackOf(LocalId, "screenshare")
  /\ PublishedOf(published, "screenshare") = {}

\* C26: every screen-share track is attached to at most one element; an
\* attachScreenShare(element) leaves the recorded track attached to that
\* element alone and every other track as it was, and with no track recorded
\* it changes nothing.
C26_AttachedToLatestOnly ==
  [][/\ \A t \in ShareTracks : Len(attachedElements'[t]) <= 1
     /\ \A element \in Elements :
          (/\ last'.op = "attachScreenShare"
           /\ \E live \in BOOLEAN : AttachScreenShare(element, live)) =>
            IF screenShareTrack = NoTrack
            THEN attachedElements' = attachedElements
            ELSE /\ attachedElements'[screenShareTrack] = <<element>>
                 /\ \A t \in ShareTracks \ {screenShareTrack} :
                      attachedElements'[t] = attachedElements[t]]_vars

\* the recorded track, attached before, has just been attached to video2
C26_Witness ==
  /\ last.op = "attachScreenShare" /\ last.res = "replaced"
  /\ screenShareTrack # NoTrack
  /\ attachedElements[screenShareTrack] = <<"video2">>

\* C27: a getMicrophone whose acquisition succeeded returns the microphone
\* track and leaves it in the active microphone slot, muted when the mute
\* preference is set; one whose acquisition failed returns no track and
\* leaves the active microphone and the active camera as they were.
C27_GetMicrophoneReplacesOrKeeps ==
  [][last'.op = "getMicrophone" =>
       IF last'.res = "acquired"
       THEN /\ last'.returned.source = "microphone"
            /\ activeMicrophone' = last'.returned
            /\ userWantsMicMuted => activeMicrophone'.muted
       ELSE /\ last'.returned = NoLocalTrack
            /\ activeMicrophone' = activeMicrophone
            /\ activeCamera' = activeCamera]_vars

\* getMicrophone has just acquired mic2 under a set mute preference: the
\* active microphone is that track, muted
C27_Witness ==
  /\ last.op = "getMicrophone" /\ last.res = "acquired"
  /\ userWantsMicMuted
  /\ activeMicrophone = [source |-> "microphone", deviceId |-> "mic2", muted |-> TRUE]
  /\ last.returned = activeMicrophone

\* C28: in every state the screen-share track and the participant sharing
\* are set together or unset together: isScreenShareActive is true exactly
\* when participantScreenSharing is not null.
C28_TrackAndOwnerTogether ==
  (screenShareTrack # NoTrack) = (participantScreenSharing # NoParticipant)

\* a track-subscribed event has just recorded the share of a remote
\* participant
C28_Witness ==
  /\ last.op = "trackSubscribed"
  /\ screenShareTrack \in ShareTracks
  /\ participantScreenSharing \in Remote

\* C29: in every state isJoined implies that the space cell holds a Space and
\* that localParticipant is set; the step that ends joinSpace joined has set
\* the local participant together with isJoined, and leaveSpace has cleared
\* the two together.
C29_JoinedHasSpaceAndParticipant ==
  /\ isJoined => (space # "null" /\ localParticipant # "null")
  /\ (last.op = "joinSpace" /\ last.res = "joined") =>
       (isJoined /\ localParticipant # "null" /\ space # "null")
  /\ last.op = "leaveSpace" => (~isJoined /\ localParticipant = "null")

\* joined on a connected Space, an event having been handled since the join
C29_Witness ==
  /\ isJoined /\ space = "Space" /\ localParticipant = "LocalParticipant"
  /\ listening /\ sdk = "connected"
  /\ last.op = "broadcastStateChanged"

\* C30: an active-speaker event permutes the roster and does no more: the
\* length and the connection ids are the ones before; when the event names
\* no remote participant of the roster (it names the local participant or
\* connections that are not there) the roster is as it was; and the entries
\* the event does not name keep the order they had among themselves.
C30_SpeakersOnlyPermute ==
  [][last'.op = "activeSpeakersChanged" =>
       /\ Len(remoteParticipants') = Len(remoteParticipants)
       /\ Elems(remoteParticipants') = Elems(remoteParticipants)
       /\ last'.named = {} => remoteParticipants' = remoteParticipants
       /\ \A a, b \in Elems(remoteParticipants) \ last'.named :
            Precedes(remoteParticipants', a, b) = Precedes(remoteParticipants, a, b)]_vars

\* a speaker has just been promoted in a roster of three: the two entries
\* that the event did not name follow it
C30_Witness ==
  /\ last.op = "activeSpeakersChanged" /\ last.res = "promoted"
  /\ Len(remoteParticipants) = 3
  /\ last.named = {remoteParticipants[1]}

====
